---- MODULE Spec2Model ----
(***************************************************************************)
(* A model of src/tello/tello.py: the Tello UDP command/response transport *)
(* (class Tello), its two listener threads and the module-level registry   *)
(* `drones`.                                                               *)
(*                                                                         *)
(* Text is modelled as a sequence of one-character strings ("CR" and "LF"  *)
(* stand for '\r' and '\n', "0xFF" for a byte that is valid neither as     *)
(* UTF-8 nor as ASCII).  Time is measured in ticks of 25 ms: the clock is  *)
(* not stored, only the elapsed times the code compares.                   *)
(***************************************************************************)
EXTENDS Integers, Sequences, FiniteSets, TLC

(***************************************************************************)
(* Bounds of the model.                                                    *)
(***************************************************************************)
\* longest response queue the command listener is let to build
MaxQueue == 2
\* most responses on their way at a time
MaxNet == 2
\* largest timeout (in ticks) a caller passes to send_command
MaxTimeout == 5
\* the thread-start and bind counters saturate here
MaxStarts == 3

(***************************************************************************)
(* Program constants (tello.py:66-69, 269), in ticks of 25 ms.             *)
(***************************************************************************)
TIMEOUT == 320
TIME_BTW_COMMANDS == 4
POLL_SLEEP == 4
RETRY_COUNT == 3

Sessions == {"s1", "s2"}
\* addresses of the devices a session may be given
IPs == {"A", "B"}
\* an address no session is ever constructed for
Stranger == "X"
AllAddrs == IPs \cup {Stranger}
Timeouts == {0, MaxTimeout}
RetryCounts == {1, RETRY_COUNT}

Min(a, b) == IF a < b THEN a ELSE b
Max(a, b) == IF a > b THEN a ELSE b

\* the time since a session's latest datagram is measured up to here: longer
\* than the pacing interval, and than a timeout and a polling sleep together
ObsCap == Max(TIME_BTW_COMMANDS, MaxTimeout + POLL_SLEEP + 1)

(***************************************************************************)
(* Text.                                                                   *)
(***************************************************************************)
UpperCase == <<"A", "B", "C", "D", "E", "F", "G", "H", "I", "J", "K", "L", "M",
               "N", "O", "P", "Q", "R", "S", "T", "U", "V", "W", "X", "Y", "Z">>
LowerCase == <<"a", "b", "c", "d", "e", "f", "g", "h", "i", "j", "k", "l", "m",
               "n", "o", "p", "q", "r", "s", "t", "u", "v", "w", "x", "y", "z">>

\* str.lower() on one character
LowerChar(c) ==
    IF \E k \in 1..26 : UpperCase[k] = c
    THEN LowerCase[CHOOSE k \in 1..26 : UpperCase[k] = c]
    ELSE c

\* str.lower()
Lower(str) == [k \in 1..Len(str) |-> LowerChar(str[k])]

\* sub in str
Contains(str, sub) ==
    \E k \in 1..(Len(str) - Len(sub) + 1) : SubSeq(str, k, k + Len(sub) - 1) = sub

\* str.rstrip("\r\n")
RECURSIVE RStripCRLF(_)
RStripCRLF(str) ==
    IF str # <<>> /\ str[Len(str)] \in {"CR", "LF"}
    THEN RStripCRLF(SubSeq(str, 1, Len(str) - 1))
    ELSE str

\* str(n) for n >= 0
RECURSIVE Digits(_)
Digits(n) ==
    LET d == <<"0", "1", "2", "3", "4", "5", "6", "7", "8", "9">>[(n % 10) + 1]
    IN  IF n < 10 THEN <<d>> ELSE Digits(n \div 10) \o <<d>>

\* bytes.decode("utf-8") / bytes.decode("ASCII") succeed on these payloads
Decodable(bytes) == \A k \in 1..Len(bytes) : bytes[k] # "0xFF"

S_ok == <<"o", "k">>
S_OK_crlf == <<"O", "K", "CR", "LF">>
S_error == <<"e", "r", "r", "o", "r">>
S_30 == <<"3", "0">>
S_bad == <<"0xFF">>
S_decode_error == <<"r", "e", "s", "p", "o", "n", "s", "e", " ", "d", "e", "c", "o",
                    "d", "e", " ", "e", "r", "r", "o", "r">>
C_command == <<"c", "o", "m", "m", "a", "n", "d">>
C_ap == <<"a", "p", " ", "T", "O", "K", "Y", "O", " ", "1">>
C_sdk == <<"s", "d", "k", "?">>
C_hardware == <<"h", "a", "r", "d", "w", "a", "r", "e", "?">>
C_battery == <<"b", "a", "t", "t", "e", "r", "y", "?">>
C_land == <<"l", "a", "n", "d">>
C_streamoff == <<"s", "t", "r", "e", "a", "m", "o", "f", "f">>

\* an acknowledgement, a refusal, bytes that do not decode
Replies == {S_OK_crlf, S_error, S_bad}
\* the command strings a caller passes to send_command
UserCommands == {C_command, C_ap}

\* the message __send_command_and_return returns on a timeout; the number is
\* printed in ticks
AbortMessage(command, timeout) ==
    <<"A", "b", "o", "r", "t", "i", "n", "g", " ", "c", "o", "m", "m", "a", "n", "d",
      " ", "'">>
    \o command
    \o <<"'", ".", " ", "D", "i", "d", " ", "n", "o", "t", " ", "r", "e", "c", "e",
         "i", "v", "e", " ", "a", " ", "r", "e", "s", "p", "o", "n", "s", "e", " ",
         "a", "f", "t", "e", "r", " ">>
    \o Digits(timeout)
    \o <<" ", "s", "e", "c", "o", "n", "d", "s">>

\* the test of send_command: 'ok' in response.lower()
IsAck_CaseSensitive(response) == Contains(response, S_ok)
IsAck(response) == Contains(Lower(response), S_ok)

VARIABLES
    threads_initialized,    \* the module flag
    client_socket,          \* "unset", "open" or "closed"
    drones,                 \* ip -> [responses, state], the registered ips only
    cmd_receive_thread,     \* "none", "running", "closing" (blocked in recvfrom
                            \* on a socket that was closed) or "dead"
    state_receiver_thread,  \* "none", "running" or "dead": the thread that
                            \* holds the state port
    started,                \* how often sockets were bound and threads started
    net,                    \* responses of devices on their way to port 8889
    owed,                   \* ip -> the device holds a command it has not answered
    timed_out,              \* the ips a wait for a response has timed out on
    dropped,                \* the ports a datagram of an unknown source was
                            \* discarded on
    heard,                  \* ip -> the state datagram its snapshot was last
                            \* stored from, <<>> when there was none
    sess,                   \* the Tello objects and their callers' positions
    obs                     \* what an observer of a session measures

vars == <<threads_initialized, client_socket, drones, cmd_receive_thread,
          state_receiver_thread, started, net, owed, timed_out, dropped, heard,
          sess, obs>>


(***************************************************************************)
(* Telemetry decoding: Tello.__state_parse (tello.py:402-435).             *)
(* A dictionary is a function on its keys.  A value is <<"int", n>>,       *)
(* <<"float", m, d>> for the decimal m/d with d the least power of ten, or  *)
(* <<"str", text>>.                                                        *)
(***************************************************************************)
INT_STATE_FIELDS ==
    { <<"m", "i", "d">>, <<"x">>, <<"y">>, <<"z">>,
      <<"p", "i", "t", "c", "h">>, <<"r", "o", "l", "l">>, <<"y", "a", "w">>,
      <<"v", "g", "x">>, <<"v", "g", "y">>, <<"v", "g", "z">>,
      <<"t", "e", "m", "p", "l">>, <<"t", "e", "m", "p", "h">>,
      <<"t", "o", "f">>, <<"h">>, <<"b", "a", "t">>, <<"t", "i", "m", "e">> }
FLOAT_STATE_FIELDS ==
    { <<"b", "a", "r", "o">>, <<"a", "g", "x">>, <<"a", "g", "y">>, <<"a", "g", "z">> }

WhiteSpace == {" ", "CR", "LF", "TAB"}
DigitChars == <<"0", "1", "2", "3", "4", "5", "6", "7", "8", "9">>
IsDigit(c) == \E k \in 1..10 : DigitChars[k] = c
DigitValue(c) == (CHOOSE k \in 1..10 : DigitChars[k] = c) - 1

\* str.strip()
RECURSIVE Strip(_)
Strip(str) ==
    IF str # <<>> /\ str[1] \in WhiteSpace THEN Strip(Tail(str))
    ELSE IF str # <<>> /\ str[Len(str)] \in WhiteSpace
         THEN Strip(SubSeq(str, 1, Len(str) - 1))
         ELSE str

\* str.split(sep) for a separator of one character
RECURSIVE Split(_, _)
Split(str, sep) ==
    IF \E k \in 1..Len(str) : str[k] = sep
    THEN LET k == CHOOSE j \in 1..Len(str) :
                     str[j] = sep /\ \A l \in 1..(j - 1) : str[l] # sep
         IN  <<SubSeq(str, 1, k - 1)>> \o Split(SubSeq(str, k + 1, Len(str)), sep)
    ELSE <<str>>

RECURSIVE DigitsValue(_)
DigitsValue(ds) ==
    IF ds = <<>> THEN 0
    ELSE 10 * DigitsValue(SubSeq(ds, 1, Len(ds) - 1)) + DigitValue(ds[Len(ds)])

AllDigits(ds) == \A k \in 1..Len(ds) : IsDigit(ds[k])

\* the text without one leading sign
Unsigned(str) == IF str # <<>> /\ str[1] \in {"+", "-"} THEN Tail(str) ELSE str
Sign(str) == IF str # <<>> /\ str[1] = "-" THEN -1 ELSE 1

\* int(text): [ok |-> FALSE] stands for ValueError.  Decimal digits with an
\* optional sign and surrounding white space.
ParseInt(text) ==
    LET u == Unsigned(Strip(text))
    IN  IF u # <<>> /\ AllDigits(u)
        THEN [ok |-> TRUE, val |-> <<"int", Sign(Strip(text)) * DigitsValue(u)>>]
        ELSE [ok |-> FALSE, val |-> <<"none">>]

RECURSIVE Pow10(_)
Pow10(n) == IF n = 0 THEN 1 ELSE 10 * Pow10(n - 1)

RECURSIVE Reduce(_, _)
Reduce(m, d) == IF d > 1 /\ m % 10 = 0 THEN Reduce(m \div 10, d \div 10) ELSE <<m, d>>

\* float(text), for plain decimals: digits, at most one point, an optional sign
ParseFloat(text) ==
    LET u == Unsigned(Strip(text))
        parts == Split(u, ".")
        whole == parts[1]
        frac == IF Len(parts) = 2 THEN parts[2] ELSE <<>>
    IN  IF /\ Len(parts) <= 2
           /\ AllDigits(whole) /\ AllDigits(frac)
           /\ whole \o frac # <<>>
        THEN LET md == Reduce(DigitsValue(whole \o frac), Pow10(Len(frac)))
             IN  [ok |-> TRUE, val |-> <<"float", Sign(Strip(text)) * md[1], md[2]>>]
        ELSE [ok |-> FALSE, val |-> <<"none">>]

EmptyDict == [k \in {} |-> <<"none">>]
DictPut(dict, key, value) ==
    [k \in DOMAIN dict \cup {key} |-> IF k = key THEN value ELSE dict[k]]

\* lines 428-432: the converter raised ValueError, the loop continues
OnValueError_Stored(state_dict, key, value) == DictPut(state_dict, key, <<"str", value>>)
OnValueError(state_dict, key, value) == state_dict

\* line 434 for a key that has no converter: the text is stored as it is
Unconverted_Dropped(state_dict, key, value) == state_dict
Unconverted(state_dict, key, value) == DictPut(state_dict, key, <<"str", value>>)

\* one pass of the loop over state.split(';')
ParseField(state_dict, field) ==
    LET split == Split(field, ":")
        key == split[1]
        value == split[2]
        conv == IF key \in INT_STATE_FIELDS THEN ParseInt(value) ELSE ParseFloat(value)
    IN  IF Len(split) < 2 THEN state_dict
        ELSE IF key \in INT_STATE_FIELDS \cup FLOAT_STATE_FIELDS
             THEN IF conv.ok THEN DictPut(state_dict, key, conv.val)
                  ELSE OnValueError(state_dict, key, value)
             ELSE Unconverted(state_dict, key, value)

RECURSIVE ParseFields(_, _)
ParseFields(state_dict, fields) ==
    IF fields = <<>> THEN state_dict
    ELSE ParseFields(ParseField(state_dict, Head(fields)), Tail(fields))

state_parse(state) ==
    IF Strip(state) = S_ok THEN EmptyDict
    ELSE ParseFields(EmptyDict, Split(Strip(state), ";"))

(***************************************************************************)
(* State.                                                                  *)
(***************************************************************************)
None == <<"None">>

\* a Tello object that does not exist (never constructed, or deleted)
NoSession ==
    [live |-> FALSE, address |-> "none", retry_count |-> 0,
     \* time since last_received_command_timestamp, at most TIME_BTW_COMMANDS
     since_last_received |-> 0,
     sdk_mode_enable |-> FALSE, sdk_version |-> None, hardware |-> None,
     STREAMING_ENABLE |-> FALSE,
     \* the caller: the method it is in, the place in it, and the place in
     \* __send_command_and_return
     op |-> "none", stage |-> "none", dpc |-> "idle",
     \* locals: send_command's i; command, timeout, the returned response,
     \* time since `timestamp`, what is left of the running time.sleep
     i |-> 0, command |-> <<>>, timeout |-> 0, response |-> <<>>,
     waited |-> 0, sleep |-> 0]

\* what is measured of a session: of the method its caller is in, the
\* datagrams sent by send_command, how its attempts ended, its result and
\* whose reply the latest pop returned; and the time since the session's
\* latest datagram was sent, at most ObsCap; and of the method its
\* caller is in, the commands handed to the socket, why it gave up, and
\* whether the command listener (deaf) and the state listener (blind) had
\* ended when its latest datagram was sent
NoObs ==
    [nsent |-> 0, hist |-> <<>>, sc_result |-> "none", lastPop |-> "none",
     sinceSend |-> ObsCap, sent |-> <<>>, failed |-> "none",
     deaf |-> FALSE, blind |-> FALSE]

NoRecord == [responses |-> <<>>, state |-> EmptyDict]

Init ==
    /\ threads_initialized = FALSE
    /\ client_socket = "unset"
    /\ drones = [a \in {} |-> NoRecord]
    /\ cmd_receive_thread = "none"
    /\ state_receiver_thread = "none"
    /\ started = [cmd_socket |-> 0, cmd_thread |-> 0,
                  state_socket |-> 0, state_thread |-> 0]
    /\ net = {}
    /\ owed = [a \in IPs |-> FALSE]
    /\ timed_out = {}
    /\ dropped = {}
    /\ heard = [a \in IPs |-> <<>>]
    /\ sess = [s \in Sessions |-> NoSession]
    /\ obs = [s \in Sessions |-> NoObs]

\* no caller is inside a method: the callers of this process take turns
AllIdle == \A s \in Sessions : sess[s].op = "none"

Bump(n) == Min(MaxStarts, n + 1)

(***************************************************************************)
(* Tello.__init__ (tello.py:180-220).                                      *)
(***************************************************************************)
\* line 205
NeedThreads_Always == TRUE
NeedThreads == ~threads_initialized

\* line 218: the registry after the assignment drones[tello_ip] = {...}
Register_Only(ip) == [a \in {ip} |-> NoRecord]
Register(ip) == DictPut(drones, ip, NoRecord)

Tello_init(s, ip, rc) ==
    /\ ~sess[s].live
    /\ AllIdle
    /\ sess' = [sess EXCEPT ![s] = [NoSession EXCEPT !.live = TRUE,
                                       !.address = ip, !.retry_count = rc]]
    /\ obs' = [obs EXCEPT ![s] = NoObs]
    /\ IF NeedThreads
       THEN /\ client_socket' = "open"
            /\ cmd_receive_thread' = "running"
            /\ started' = [started EXCEPT !.cmd_socket = Bump(@),
                                          !.cmd_thread = Bump(@)]
            /\ threads_initialized' = TRUE
       ELSE UNCHANGED <<client_socket, cmd_receive_thread, started,
                        threads_initialized>>
    /\ drones' = Register(ip)
    /\ heard' = [heard EXCEPT ![ip] = <<>>]
    /\ UNCHANGED <<state_receiver_thread, net, owed, timed_out>>
    /\ UNCHANGED dropped

(***************************************************************************)
(* Tello.__init__ statement by statement, for constructors that run in     *)
(* threads of their own: between the test of threads_initialized (line     *)
(* 205) and its assignment (line 216) another constructor may run.         *)
(***************************************************************************)
\* lines 193-205, up to the test
init_call(s, ip, rc) ==
    /\ ~sess[s].live
    /\ sess[s].op = "none"
    /\ sess' = [sess EXCEPT ![s] =
                  [NoSession EXCEPT !.address = ip, !.retry_count = rc,
                                    !.op = "init",
                                    !.stage = IF NeedThreads THEN "socket"
                                              ELSE "register"]]
    /\ obs' = [obs EXCEPT ![s] = NoObs]
    /\ UNCHANGED <<threads_initialized, client_socket, drones, cmd_receive_thread,
                   state_receiver_thread, started, net, owed, timed_out, dropped,
                   heard>>

\* lines 208-209: socket() and bind().  bind raises OSError when a socket is
\* bound to the port already, and the constructor ends with it
init_socket(s) ==
    /\ sess[s].op = "init"
    /\ sess[s].stage = "socket"
    /\ IF client_socket = "open"
       THEN /\ sess' = [sess EXCEPT ![s] = NoSession]
            /\ obs' = [obs EXCEPT ![s].failed = "raised"]
            /\ UNCHANGED <<client_socket, started>>
       ELSE /\ sess' = [sess EXCEPT ![s].stage = "thread"]
            /\ client_socket' = "open"
            /\ started' = [started EXCEPT !.cmd_socket = Bump(@)]
            /\ UNCHANGED obs
    /\ UNCHANGED <<threads_initialized, drones, cmd_receive_thread,
                   state_receiver_thread, net, owed, timed_out, dropped, heard>>

\* lines 212-214
init_thread(s) ==
    /\ sess[s].op = "init"
    /\ sess[s].stage = "thread"
    /\ sess' = [sess EXCEPT ![s].stage = "flag"]
    /\ cmd_receive_thread' = "running"
    /\ started' = [started EXCEPT !.cmd_thread = Bump(@)]
    /\ UNCHANGED <<threads_initialized, client_socket, drones,
                   state_receiver_thread, net, owed, timed_out, dropped, heard,
                   obs>>

\* line 216
init_flag(s) ==
    /\ sess[s].op = "init"
    /\ sess[s].stage = "flag"
    /\ sess' = [sess EXCEPT ![s].stage = "register"]
    /\ threads_initialized' = TRUE
    /\ UNCHANGED <<client_socket, drones, cmd_receive_thread,
                   state_receiver_thread, started, net, owed, timed_out, dropped,
                   heard, obs>>

\* line 218, and the constructor returns
init_register(s) ==
    /\ sess[s].op = "init"
    /\ sess[s].stage = "register"
    /\ sess' = [sess EXCEPT ![s].live = TRUE, ![s].op = "none",
                            ![s].stage = "none"]
    /\ drones' = Register(sess[s].address)
    /\ heard' = [heard EXCEPT ![sess[s].address] = <<>>]
    /\ UNCHANGED <<threads_initialized, client_socket, cmd_receive_thread,
                   state_receiver_thread, started, net, owed, timed_out, dropped,
                   obs>>

\* two threads that construct Tello objects, for any of the devices
NextConstruct ==
    \/ \E s \in Sessions, ip \in IPs, rc \in RetryCounts : init_call(s, ip, rc)
    \/ \E s \in Sessions : init_socket(s)
    \/ \E s \in Sessions : init_thread(s)
    \/ \E s \in Sessions : init_flag(s)
    \/ \E s \in Sessions : init_register(s)

(***************************************************************************)
(* Tello.__send_command_and_return (tello.py:229-284).                     *)
(***************************************************************************)
\* lines 250-255: the call, up to the pacing sleep
Enter(r, command, timeout) ==
    LET diff == r.since_last_received
    IN  [r EXCEPT !.command = command, !.timeout = timeout, !.response = <<>>,
                  !.dpc = "pace", !.waited = 0,
                  !.sleep = IF diff < TIME_BTW_COMMANDS THEN diff ELSE 0]

\* the caller is in send_command's loop
InSendCommand(r) ==
    r.op = "send_command" \/ (r.op = "connect" /\ r.stage = "command")

\* a datagram to ip leaves: what is in flight or queued from ip answers an
\* earlier datagram from now on
Late(d, ip) == IF d.src = ip THEN [d EXCEPT !.re = "late"] ELSE d

\* lines 258-260: timestamp, sendto.  sendto on the closed socket raises.
scr_send(s) ==
    LET r == sess[s]
        ip == r.address
    IN  /\ r.dpc = "pace"
        /\ r.sleep = 0
        /\ IF client_socket = "open"
           THEN /\ sess' = [sess EXCEPT ![s].dpc = "poll", ![s].waited = 0]
                /\ owed' = [owed EXCEPT ![ip] = TRUE]
                /\ net' = {Late(d, ip) : d \in net}
                /\ drones' = [a \in DOMAIN drones |->
                                [drones[a] EXCEPT !.responses =
                                    [k \in 1..Len(@) |-> Late(@[k], ip)]]]
                /\ obs' = [obs EXCEPT
                             ![s].nsent = IF InSendCommand(r) THEN @ + 1 ELSE @,
                             ![s].sinceSend = 0,
                             ![s].sent = Append(@, r.command),
                             ![s].deaf = cmd_receive_thread = "dead",
                             ![s].blind = state_receiver_thread = "dead"]
           ELSE /\ sess' = [sess EXCEPT ![s].dpc = "raise"]
                /\ UNCHANGED <<owed, net, drones, obs>>
        /\ UNCHANGED <<threads_initialized, client_socket, cmd_receive_thread,
                       state_receiver_thread, started, timed_out>>
        /\ UNCHANGED <<dropped, heard>>

\* the text contains "ok" in some mix of upper and lower case
HasOk(text) ==
    \E k \in 1..(Len(text) - 1) :
        /\ text[k] \in {"o", "O"}
        /\ text[k + 1] \in {"k", "K"}

\* the result of one attempt, as send_command's caller sees it: how it ended
\* and whether the text returned holds "ok"
Noted(o, r, kind, text) ==
    IF InSendCommand(r)
    THEN [o EXCEPT !.hist = Append(@, [kind |-> kind, ok |-> HasOk(text)])]
    ELSE o

\* line 265: time.time() - timestamp > timeout
Expired_Never(r) == FALSE
Expired_Early(r) == r.waited + POLL_SLEEP > r.timeout
Expired(r) == r.waited > r.timeout

\* lines 264-269: one pass of the polling loop
scr_poll(s) ==
    LET r == sess[s]
        responses == drones[r.address].responses
        message == AbortMessage(r.command, r.timeout)
    IN  /\ r.dpc = "poll"
        /\ r.sleep = 0
        /\ IF responses # <<>>
           THEN /\ sess' = [sess EXCEPT ![s].dpc = "pop"]
                /\ UNCHANGED <<obs, timed_out>>
           ELSE IF Expired(r)
                THEN /\ sess' = [sess EXCEPT ![s].dpc = "ret",
                                             ![s].response = message]
                     /\ obs' = [obs EXCEPT ![s] = Noted(@, r, "timeout", message)]
                     /\ timed_out' = timed_out \cup {r.address}
                ELSE /\ sess' = [sess EXCEPT ![s].sleep = POLL_SLEEP]
                     /\ UNCHANGED <<obs, timed_out>>
        /\ UNCHANGED <<threads_initialized, client_socket, drones,
                       cmd_receive_thread, state_receiver_thread, started, net,
                       owed>>
        /\ UNCHANGED <<dropped, heard>>

\* line 273: what responses.pop(0) leaves in the list
Rest_Kept(responses) == responses
Rest(responses) == Tail(responses)

\* lines 275-281
Decoded_Raw(bytes) == IF Decodable(bytes) THEN bytes ELSE S_decode_error
Decoded(bytes) ==
    IF Decodable(bytes) THEN RStripCRLF(bytes) ELSE S_decode_error

\* lines 271-284: the timestamp, the pop, the decoding
scr_pop(s) ==
    LET r == sess[s]
        ip == r.address
        responses == drones[ip].responses
        first_response == Head(responses)
        kind == IF Decodable(first_response.body) THEN "response" ELSE "decode"
        whose == IF first_response.src = ip THEN first_response.re ELSE "other"
    IN  /\ r.dpc = "pop"
        /\ IF responses = <<>>
           THEN /\ sess' = [sess EXCEPT ![s].dpc = "raise",
                                        ![s].since_last_received = 0]
                /\ UNCHANGED <<drones, obs>>
           ELSE /\ sess' = [sess EXCEPT ![s].dpc = "ret",
                                        ![s].since_last_received = 0,
                                        ![s].response = Decoded(first_response.body)]
                /\ drones' = [drones EXCEPT ![ip].responses = Rest(@)]
                /\ obs' = [obs EXCEPT ![s] =
                             [Noted(@, r, kind, Decoded(first_response.body))
                                EXCEPT !.lastPop = whose]]
        /\ UNCHANGED <<threads_initialized, client_socket, cmd_receive_thread,
                       state_receiver_thread, started, net, owed, timed_out>>
        /\ UNCHANGED <<dropped, heard>>

\* the method is about to return (or raise): its locals are gone
Finish(r) ==
    [r EXCEPT !.op = "done", !.stage = "none", !.dpc = "idle", !.i = 0,
              !.command = <<>>, !.timeout = 0, !.response = <<>>,
              !.waited = 0, !.sleep = 0]

\* the method has returned to its caller
method_return(s) ==
    /\ sess[s].op = "done"
    /\ sess' = [sess EXCEPT ![s].op = "none"]
    /\ obs' = [obs EXCEPT ![s] = [NoObs EXCEPT !.sinceSend = obs[s].sinceSend]]
    /\ UNCHANGED <<threads_initialized, client_socket, drones, cmd_receive_thread,
                   state_receiver_thread, started, net, owed, timed_out, dropped,
                   heard>>

(***************************************************************************)
(* Tello.send_command (tello.py:296-310).                                  *)
(***************************************************************************)
\* the call, whatever the callers of the other objects are doing
send_command_call(s, command, timeout) ==
    /\ sess[s].live
    /\ sess[s].op = "none"
    /\ sess' = [sess EXCEPT ![s] =
                  Enter([@ EXCEPT !.op = "send_command", !.stage = "loop", !.i = 0],
                        command, timeout)]
    /\ obs' = [obs EXCEPT ![s].nsent = 0, ![s].hist = <<>>,
                          ![s].sc_result = "none"]
    /\ UNCHANGED <<threads_initialized, client_socket, drones, cmd_receive_thread,
                   state_receiver_thread, started, net, owed, timed_out>>
    /\ UNCHANGED <<dropped, heard>>

\* the call of a caller that takes turns with the other callers
send_command(s, command, timeout) ==
    /\ AllIdle
    /\ send_command_call(s, command, timeout)

\* lines 301-310: what send_command does with an attempt's response:
\* "true", "false" or "again"
AfterAttempt_True(r) == "true"
AfterAttempt_Extra(r) ==
    IF IsAck(r.response) THEN "true"
    ELSE IF r.i < r.retry_count THEN "again" ELSE "false"
AfterAttempt(r) ==
    IF IsAck(r.response) THEN "true"
    ELSE IF r.i + 1 < r.retry_count THEN "again" ELSE "false"

send_command_return(s) ==
    LET r == sess[s]
        next == IF r.dpc = "raise" THEN "raised" ELSE AfterAttempt(r)
    IN  /\ r.op = "send_command"
        /\ r.dpc \in {"ret", "raise"}
        /\ IF next = "again"
           THEN /\ sess' = [sess EXCEPT ![s] =
                              Enter([r EXCEPT !.i = @ + 1], r.command, r.timeout)]
                /\ UNCHANGED obs
           ELSE /\ sess' = [sess EXCEPT ![s] = Finish(r)]
                /\ obs' = [obs EXCEPT ![s].sc_result = next]
        /\ UNCHANGED <<threads_initialized, client_socket, drones,
                       cmd_receive_thread, state_receiver_thread, started, net,
                       owed, timed_out>>
        /\ UNCHANGED <<dropped, heard>>

(***************************************************************************)
(* Tello.connect (tello.py:312-342), with get_sdk_version (588-611),       *)
(* get_hardware (636-661) and get_battery (517-538).                       *)
(***************************************************************************)
connect(s) ==
    /\ sess[s].live
    /\ AllIdle
    /\ sess' = [sess EXCEPT ![s] =
                  Enter([@ EXCEPT !.op = "connect", !.stage = "command", !.i = 0],
                        C_command, TIMEOUT)]
    /\ obs' = [obs EXCEPT ![s].nsent = 0, ![s].hist = <<>>,
                          ![s].sc_result = "none"]
    /\ UNCHANGED <<threads_initialized, client_socket, drones, cmd_receive_thread,
                   state_receiver_thread, started, net, owed, timed_out>>
    /\ UNCHANGED <<dropped, heard>>

\* get_sdk_version's result: None when the send raised, -1 when int() failed
SdkVersionOf(r) ==
    IF r.dpc = "raise" THEN None
    ELSE IF ParseInt(r.response).ok THEN ParseInt(r.response).val
         ELSE <<"int", -1>>

\* get_hardware's result when the query was sent
HardwareOf(r) == IF r.dpc = "raise" THEN None ELSE <<"str", r.response>>

\* __check_sdk_version(30), lines 448-457
SdkVersionIs30(r) == r.sdk_version = <<"int", 30>>

\* lines 335-339: a thread is started on __state_thread whenever connect gets
\* here.  Lines 379-380 in the started thread: bind succeeds unless a running
\* state thread holds the port, and then the new thread ends with the OSError
state_thread_start ==
    /\ started' = [started EXCEPT
                     !.state_thread = Bump(@),
                     !.state_socket =
                         IF state_receiver_thread = "running" THEN @ ELSE Bump(@)]
    /\ state_receiver_thread' = "running"

\* line 320: self.sdk_mode_enable = True writes the attribute of the object
EnableSdkMode_Class(s, r) ==
    [t \in Sessions |->
        IF t = s THEN [r EXCEPT !.sdk_mode_enable = TRUE]
        ELSE [sess[t] EXCEPT !.sdk_mode_enable = TRUE]]
EnableSdkMode(s, r) == [sess EXCEPT ![s] = [r EXCEPT !.sdk_mode_enable = TRUE]]

connect_return(s) ==
    LET r == sess[s]
        next == IF r.dpc = "raise" THEN "raised" ELSE AfterAttempt(r)
        r_sdk == [r EXCEPT !.sdk_version = SdkVersionOf(r)]
        r_hw == [r EXCEPT !.hardware = HardwareOf(r)]
    IN  /\ r.op = "connect"
        /\ r.dpc \in {"ret", "raise"}
        /\ CASE r.stage = "command" /\ next = "again" ->
                  /\ sess' = [sess EXCEPT ![s] =
                                Enter([r EXCEPT !.i = @ + 1], r.command, r.timeout)]
                  /\ UNCHANGED <<obs, started, state_receiver_thread>>
             [] r.stage = "command" /\ next = "true" ->
                  /\ sess' = EnableSdkMode(s, Enter([r EXCEPT !.stage = "sdk",
                                                               !.i = 0],
                                                     C_sdk, TIMEOUT))
                  /\ obs' = [obs EXCEPT ![s].sc_result = next]
                  /\ UNCHANGED <<started, state_receiver_thread>>
             [] r.stage = "command" /\ next \in {"false", "raised"} ->
                  /\ sess' = [sess EXCEPT ![s] = Finish(r)]
                  /\ obs' = [obs EXCEPT ![s].sc_result = next]
                  /\ UNCHANGED <<started, state_receiver_thread>>
             [] r.stage = "sdk" ->
                  /\ sess' = [sess EXCEPT ![s] =
                                IF SdkVersionIs30(r_sdk)
                                THEN Enter([r_sdk EXCEPT !.stage = "hardware"],
                                           C_hardware, TIMEOUT)
                                ELSE Enter([r_sdk EXCEPT !.hardware = None,
                                                         !.stage = "battery"],
                                           C_battery, TIMEOUT)]
                  /\ UNCHANGED <<obs, started, state_receiver_thread>>
             [] r.stage = "hardware" ->
                  /\ sess' = [sess EXCEPT ![s] =
                                Enter([r_hw EXCEPT !.stage = "battery"],
                                      C_battery, TIMEOUT)]
                  /\ UNCHANGED <<obs, started, state_receiver_thread>>
             [] r.stage = "battery" ->
                  /\ sess' = [sess EXCEPT ![s] = Finish(r)]
                  /\ state_thread_start
                  /\ UNCHANGED obs
        /\ UNCHANGED <<threads_initialized, client_socket, drones,
                       cmd_receive_thread, net, owed, timed_out>>
        /\ UNCHANGED <<dropped, heard>>

(***************************************************************************)
(* Tello.__del__ (tello.py:222-227), with land (1010-1020) and stream_off  *)
(* (1071-1086).                                                            *)
(***************************************************************************)
\* line 227: client_socket.close().  A listener blocked in recvfrom may still
\* be handed one datagram; its next recvfrom raises.
CloseSocket ==
    /\ client_socket' = "closed"
    /\ cmd_receive_thread' =
          IF cmd_receive_thread = "running" THEN "closing" ELSE cmd_receive_thread

\* lines 1016-1020 and 1077-1086: land and stream_off catch whatever their
\* body raises, so nothing reaches __del__ and its caller
Propagates_Uncaught(r) == r.dpc = "raise"
Propagates(r) == FALSE

\* __check_sdk_mode raises in land and in stream_off, both catch it: nothing
\* is sent by a session that is not in SDK mode
Tello_del(s) ==
    /\ sess[s].live
    /\ AllIdle
    /\ IF sess[s].sdk_mode_enable
       THEN /\ sess' = [sess EXCEPT ![s] =
                          Enter([@ EXCEPT !.op = "del", !.stage = "land"],
                                C_land, TIMEOUT)]
            /\ UNCHANGED <<client_socket, cmd_receive_thread, obs>>
       ELSE /\ sess' = [sess EXCEPT ![s] = NoSession]
            /\ obs' = [obs EXCEPT ![s] = [NoObs EXCEPT !.failed = "torn_down"]]
            /\ CloseSocket
    /\ UNCHANGED <<threads_initialized, drones, state_receiver_thread, started,
                   net, owed, timed_out>>
    /\ UNCHANGED <<dropped, heard>>

del_return(s) ==
    LET r == sess[s]
    IN  /\ r.op = "del"
        /\ r.dpc \in {"ret", "raise"}
        /\ IF Propagates(r)
           THEN /\ sess' = [sess EXCEPT ![s] = NoSession]
                /\ obs' = [obs EXCEPT ![s] = [NoObs EXCEPT !.failed = "raised"]]
                /\ UNCHANGED <<client_socket, cmd_receive_thread>>
           ELSE IF r.stage = "land"
           THEN /\ sess' = [sess EXCEPT ![s] =
                              Enter([r EXCEPT !.stage = "streamoff"],
                                    C_streamoff, TIMEOUT)]
                /\ UNCHANGED <<client_socket, cmd_receive_thread, obs>>
           ELSE /\ sess' = [sess EXCEPT ![s] = NoSession]
                /\ obs' = [obs EXCEPT ![s] = [NoObs EXCEPT !.failed = "torn_down"]]
                /\ CloseSocket
        /\ UNCHANGED <<threads_initialized, drones, state_receiver_thread, started,
                       net, owed, timed_out>>
        /\ UNCHANGED <<dropped, heard>>

(***************************************************************************)
(* Tello.__receive_thread (tello.py:351-371).                              *)
(***************************************************************************)
\* lines 364-367: the records a datagram from `address` is appended to
Recipients_All(address) == DOMAIN drones
Recipients(address) == IF address \in DOMAIN drones THEN {address} ELSE {}

\* line 367: drones[ip]['responses'].append(data)
Enqueue_Front(responses, d) == <<d>> \o responses
Enqueue(responses, d) == Append(responses, d)

\* one pass of the loop on datagram d
receive_pass(d) ==
    /\ cmd_receive_thread \in {"running", "closing"}
    /\ \A a \in Recipients(d.src) : Len(drones[a].responses) < MaxQueue
    /\ drones' = [a \in DOMAIN drones |->
                    IF a \in Recipients(d.src)
                    THEN [drones[a] EXCEPT !.responses = Enqueue(@, d)]
                    ELSE drones[a]]
    /\ cmd_receive_thread' =
          IF cmd_receive_thread = "closing" THEN "dead" ELSE cmd_receive_thread
    /\ dropped' = IF Recipients(d.src) = {} THEN dropped \cup {"command"} ELSE dropped
    /\ UNCHANGED heard

\* a response of a device arrives
receive_response(d) ==
    /\ d \in net
    /\ receive_pass(d)
    /\ net' = net \ {d}
    /\ UNCHANGED <<threads_initialized, client_socket, state_receiver_thread,
                   started, owed, timed_out, sess, obs>>

\* a datagram arrives from a host that no session was constructed for
receive_stray(address, body) ==
    /\ address \notin DOMAIN drones
    /\ receive_pass([src |-> address, body |-> body, re |-> "stray"])
    /\ UNCHANGED <<threads_initialized, client_socket, state_receiver_thread,
                   started, net, owed, timed_out, sess, obs>>

\* lines 369-371: recvfrom raises
receive_error ==
    /\ cmd_receive_thread \in {"running", "closing"}
    /\ cmd_receive_thread' = "dead"
    /\ UNCHANGED <<threads_initialized, client_socket, drones,
                   state_receiver_thread, started, net, owed, timed_out, sess,
                   obs, dropped, heard>>

(***************************************************************************)
(* Tello.__state_thread (tello.py:373-400).                                *)
(***************************************************************************)
L_ok == <<"o", "k", "CR", "LF">>
L_bat == <<"b", "a", "t", ":", "9", ";", "h", ":", "1", ";", "CR", "LF">>
L_h == <<"h", ":", "2", ";">>
StateLines == {L_ok, L_bat, L_h, S_bad}

\* lines 392-396: the records a state datagram from `address` is stored in
StateRecipients_All(address) == DOMAIN drones
StateRecipients(address) == IF address \in DOMAIN drones THEN {address} ELSE {}

\* line 396: the snapshot is replaced by the decoded datagram
Snapshot_Merged(old, parsed) ==
    [k \in DOMAIN old \cup DOMAIN parsed |->
        IF k \in DOMAIN parsed THEN parsed[k] ELSE old[k]]
Snapshot(old, parsed) == parsed

\* one pass of the loop on a datagram from `address`
state_thread(address, line) ==
    /\ state_receiver_thread = "running"
    /\ UNCHANGED <<threads_initialized, client_socket, cmd_receive_thread,
                   started, net, owed, timed_out, sess, obs>>
    /\ IF StateRecipients(address) = {}
       THEN /\ dropped' = dropped \cup {"state"}
            /\ UNCHANGED <<drones, state_receiver_thread, heard>>
       ELSE IF ~Decodable(line)
            THEN /\ state_receiver_thread' = "dead"
                 /\ UNCHANGED <<drones, dropped, heard>>
            ELSE /\ drones' = [a \in DOMAIN drones |->
                                 IF a \in StateRecipients(address)
                                 THEN [drones[a] EXCEPT !.state =
                                         Snapshot(@, state_parse(line))]
                                 ELSE drones[a]]
                 /\ heard' = [a \in IPs |->
                                IF a \in StateRecipients(address) THEN line
                                ELSE heard[a]]
                 /\ UNCHANGED <<state_receiver_thread, dropped>>

\* lines 398-400: recvfrom raises
state_error_Both ==
    /\ state_receiver_thread = "running"
    /\ state_receiver_thread' = "dead"
    /\ cmd_receive_thread' = "dead"
    /\ UNCHANGED <<threads_initialized, client_socket, drones, started, net, owed,
                   timed_out, sess, obs, dropped, heard>>
state_error ==
    /\ state_receiver_thread = "running"
    /\ state_receiver_thread' = "dead"
    /\ UNCHANGED <<threads_initialized, client_socket, drones, cmd_receive_thread,
                   started, net, owed, timed_out, sess, obs, dropped, heard>>

(***************************************************************************)
(* The devices and the clock.                                              *)
(***************************************************************************)
\* a device answers the command it holds
device_reply(ip, body) ==
    /\ owed[ip]
    /\ Cardinality(net) < MaxNet
    /\ owed' = [owed EXCEPT ![ip] = FALSE]
    /\ net' = net \cup {[src |-> ip, body |-> body, re |-> "current"]}
    /\ UNCHANGED <<threads_initialized, client_socket, drones, cmd_receive_thread,
                   state_receiver_thread, started, timed_out, sess, obs, dropped,
                   heard>>

\* d ticks pass
Tick(d) ==
    /\ sess' = [s \in Sessions |->
                  IF sess[s].live
                  THEN [sess[s] EXCEPT
                          !.since_last_received = Min(TIME_BTW_COMMANDS, @ + d),
                          !.waited = IF sess[s].dpc = "poll"
                                     THEN Min(sess[s].timeout + 1, @ + d) ELSE @,
                          !.sleep = Max(0, @ - d)]
                  ELSE sess[s]]
    /\ obs' = [s \in Sessions |->
                 IF sess[s].live
                 THEN [obs[s] EXCEPT !.sinceSend = Min(ObsCap, @ + d)]
                 ELSE obs[s]]
    /\ UNCHANGED <<threads_initialized, client_socket, drones, cmd_receive_thread,
                   state_receiver_thread, started, net, owed, timed_out, dropped,
                   heard>>

\* longer than every wait of the program
LongTime == TIMEOUT + TIME_BTW_COMMANDS + 1

(***************************************************************************)
(* The dispatcher of one session on one device: send_command, the polling  *)
(* wait, the command listener, the device.  Time passes in long jumps      *)
(* (SpecDispatch) or tick by tick (SpecTimed).                             *)
(***************************************************************************)
Dispatcher(s) ==
    \/ scr_send(s)
    \/ scr_poll(s)
    \/ scr_pop(s)
    \/ method_return(s)

NextDispatch(d, timeouts, answers) ==
    \/ \E rc \in RetryCounts : Tello_init("s1", "A", rc)
    \/ \E command \in UserCommands, timeout \in timeouts :
          send_command("s1", command, timeout)
    \/ Dispatcher("s1")
    \/ send_command_return("s1")
    \/ \E m \in net : receive_response(m)
    \/ \E body \in answers : device_reply("A", body)
    \/ Tick(d)

SpecDispatch == Init /\ [][NextDispatch(LongTime, {TIMEOUT}, Replies)]_vars

SpecTimed == Init /\ [][NextDispatch(1, Timeouts, {S_ok})]_vars

\* a caller that is not asleep takes its next step before the clock moves on
Runnable(r) == r.live /\ r.dpc # "idle" /\ r.sleep = 0
Tick_Prompt(d) ==
    /\ \A s \in Sessions : ~Runnable(sess[s])
    /\ Tick(d)

NextPrompt ==
    \/ \E rc \in RetryCounts : Tello_init("s1", "A", rc)
    \/ \E command \in UserCommands, timeout \in Timeouts :
          send_command("s1", command, timeout)
    \/ Dispatcher("s1")
    \/ send_command_return("s1")
    \/ \E m \in net : receive_response(m)
    \/ device_reply("A", S_ok)
    \/ Tick_Prompt(1)

\* the same dispatcher where the caller's thread is scheduled and the clock
\* goes on: no step of the caller is put off for ever
SpecPrompt ==
    /\ Init
    /\ [][NextPrompt]_vars
    /\ WF_vars(Tick_Prompt(1))
    /\ WF_vars(Dispatcher("s1"))
    /\ WF_vars(send_command_return("s1"))

\* two Tello objects for one device, each used by a thread of its own: the
\* two callers do not take turns
NextThreads ==
    \/ \E s \in Sessions : Tello_init(s, "A", 1)
    \/ \E s \in Sessions : send_command_call(s, C_command, TIMEOUT)
    \/ \E s \in Sessions : Dispatcher(s)
    \/ \E s \in Sessions : send_command_return(s)
    \/ \E m \in net : receive_response(m)
    \/ device_reply("A", S_ok)
    \/ Tick(LongTime)

SpecThreads == Init /\ [][NextThreads]_vars

SpecConstruct == Init /\ [][NextConstruct]_vars

\* the dispatcher with a command listener that may end on a receive error
SpecListenerLoss ==
    Init /\ [][NextDispatch(LongTime, {TIMEOUT}, Replies) \/ receive_error]_vars

(***************************************************************************)
(* The process: two Tello objects made, connected and deleted by callers   *)
(* that take turns, the command listener and the devices.                  *)
(***************************************************************************)
\* what the devices answer here: an acknowledgement or a version
Answers == {S_ok, S_30}

Lifecycle(answers) ==
    \/ \E s \in Sessions, ip \in IPs : Tello_init(s, ip, 1)
    \/ \E s \in Sessions : Dispatcher(s)
    \/ \E s \in Sessions : connect(s)
    \/ \E s \in Sessions : connect_return(s)
    \/ \E m \in net : receive_response(m)
    \/ \E ip \in IPs, body \in answers : device_reply(ip, body)

Next ==
    \/ Lifecycle(Answers)
    \/ \E s \in Sessions : Tello_del(s)
    \/ \E s \in Sessions : del_return(s)
    \/ receive_error
    \/ state_error

Spec == Init /\ [][Next]_vars

(***************************************************************************)
(* Teardown: a session that connects to a device which answers or stays    *)
(* silent and is then deleted, beside a second session that is only made   *)
(* and deleted, which closes the shared socket under the first.            *)
(***************************************************************************)
NextTeardown ==
    \/ Tello_init("s1", "A", 1)
    \/ Tello_init("s2", "B", 1)
    \/ connect("s1")
    \/ connect_return("s1")
    \/ Dispatcher("s1")
    \/ \E s \in Sessions : Tello_del(s)
    \/ del_return("s1")
    \/ \E m \in net : receive_response(m)
    \/ device_reply("A", S_ok)
    \/ Tick(LongTime)

SpecTeardown == Init /\ [][NextTeardown]_vars

(***************************************************************************)
(* The same process without deletions, with the datagrams that reach the   *)
(* two listeners: state datagrams of every host, and datagrams of a host   *)
(* that is no device on the command port.                                  *)
(***************************************************************************)
NextRouting ==
    \/ Lifecycle({S_ok})
    \/ \E address \in AllAddrs : receive_stray(address, S_ok)
    \/ \E address \in AllAddrs, line \in StateLines : state_thread(address, line)

SpecRouting == Init /\ [][NextRouting]_vars

(***************************************************************************)
(* The typed commands, of which two are modelled: Tello.move_up            *)
(* (tello.py:1181-1194), which waits for a response, and Tello.reboot      *)
(* (tello.py:1100-1114), which hands its datagram to the socket itself,    *)
(* as Tello.joystick_control does.                                         *)
(***************************************************************************)
DISTANCE_RANGE == <<20, 500>>
\* the distances a caller passes to move_up
Distances == {19, 20, 100, 500, 501, 600}

C_up(distance) == <<"u", "p", " ">> \o Digits(distance)
C_reboot == <<"r", "e", "b", "o", "o", "t">>

\* __check_sdk_mode, lines 437-446: TRUE when it does not raise
check_sdk_mode_Skipped(r) == TRUE
check_sdk_mode(r) == r.sdk_mode_enable

\* __check_in_range, lines 1170-1179
check_in_range_Any(value, range) == TRUE
check_in_range(value, range) == value >= range[1] /\ value <= range[2]

\* the method gives up before any I/O; what it raised is caught and logged
GiveUp(s, why) ==
    /\ sess' = [sess EXCEPT ![s] = Finish(@)]
    /\ obs' = [obs EXCEPT ![s].failed = why]
    /\ UNCHANGED <<net, drones>>

move_up(s, distance) ==
    LET r == sess[s]
    IN  /\ r.live
        /\ AllIdle
        /\ IF ~check_sdk_mode(r) THEN GiveUp(s, "sdk_mode")
           ELSE IF ~check_in_range(distance, DISTANCE_RANGE) THEN GiveUp(s, "range")
           ELSE /\ sess' = [sess EXCEPT ![s] =
                              Enter([r EXCEPT !.op = "move_up", !.stage = "send"],
                                    C_up(distance), TIMEOUT)]
                /\ UNCHANGED <<obs, net, drones>>
        /\ UNCHANGED <<threads_initialized, client_socket, cmd_receive_thread,
                       state_receiver_thread, started, owed, timed_out, dropped,
                       heard>>

\* lines 1190-1194: the response is dropped, an exception is caught and logged
move_up_return(s) ==
    LET r == sess[s]
    IN  /\ r.op = "move_up"
        /\ r.dpc \in {"ret", "raise"}
        /\ sess' = [sess EXCEPT ![s] = Finish(r)]
        /\ obs' = [obs EXCEPT ![s].failed = IF r.dpc = "raise" THEN "raised" ELSE @]
        /\ UNCHANGED <<threads_initialized, client_socket, drones,
                       cmd_receive_thread, state_receiver_thread, started, net,
                       owed, timed_out, dropped, heard>>

\* lines 1112 and 1434: the command is handed to the socket by the method
\* itself, which returns.  The device does not answer: owed is left alone.
FireAndForget_Awaited(s, command) ==
    /\ sess' = [sess EXCEPT ![s] =
                  Enter([@ EXCEPT !.op = "move_up", !.stage = "send"],
                        command, TIMEOUT)]
    /\ UNCHANGED <<obs, net, drones>>
FireAndForget(s, command) ==
    LET ip == sess[s].address
    IN  IF client_socket # "open" THEN GiveUp(s, "raised")
        ELSE /\ sess' = [sess EXCEPT ![s] = Finish(@)]
             /\ net' = {Late(d, ip) : d \in net}
             /\ drones' = [a \in DOMAIN drones |->
                             [drones[a] EXCEPT !.responses =
                                 [k \in 1..Len(@) |-> Late(@[k], ip)]]]
             /\ obs' = [obs EXCEPT ![s].sent = Append(@, command),
                                   ![s].sinceSend = 0]

reboot(s) ==
    LET r == sess[s]
    IN  /\ r.live
        /\ AllIdle
        /\ IF ~check_sdk_mode(r) THEN GiveUp(s, "sdk_mode")
           ELSE IF ~SdkVersionIs30(r) THEN GiveUp(s, "sdk_version")
           ELSE FireAndForget(s, C_reboot)
        /\ UNCHANGED <<threads_initialized, client_socket, cmd_receive_thread,
                       state_receiver_thread, started, owed, timed_out, dropped,
                       heard>>

(***************************************************************************)
(* Tello.joystick_control (tello.py:1393-1438).                            *)
(***************************************************************************)
JOYSTICK_RANGE == <<-100, 100>>
\* the lever values a caller passes
Sticks == {-101, -100, 100}

\* str(n)
Str(n) == IF n < 0 THEN <<"-">> \o Digits(-n) ELSE Digits(n)

\* line 1433
C_rc(roll, pitch, throttle, yaw) ==
    <<"r", "c", " ">> \o Str(roll) \o <<" ">> \o Str(pitch) \o <<" ">>
        \o Str(throttle) \o <<" ">> \o Str(yaw)

joystick_control(s, roll, pitch, yaw, throttle) ==
    LET r == sess[s]
    IN  /\ r.live
        /\ AllIdle
        /\ IF ~check_sdk_mode(r) THEN GiveUp(s, "sdk_mode")
           ELSE IF /\ check_in_range(roll, JOYSTICK_RANGE)
                   /\ check_in_range(pitch, JOYSTICK_RANGE)
                   /\ check_in_range(yaw, JOYSTICK_RANGE)
                   /\ check_in_range(throttle, JOYSTICK_RANGE)
                THEN FireAndForget(s, C_rc(roll, pitch, throttle, yaw))
                ELSE GiveUp(s, "range")
        /\ UNCHANGED <<threads_initialized, client_socket, cmd_receive_thread,
                       state_receiver_thread, started, owed, timed_out, dropped,
                       heard>>

(***************************************************************************)
(* Tello.stream_on (tello.py:1022-1042).  The thread that reads the video  *)
(* is left out.                                                            *)
(***************************************************************************)
C_streamon == <<"s", "t", "r", "e", "a", "m", "o", "n">>

stream_on(s) ==
    LET r == sess[s]
    IN  /\ r.live
        /\ AllIdle
        /\ IF ~check_sdk_mode(r) THEN GiveUp(s, "sdk_mode")
           ELSE /\ sess' = [sess EXCEPT ![s] =
                              Enter([r EXCEPT !.op = "stream_on", !.stage = "send"],
                                    C_streamon, TIMEOUT)]
                /\ UNCHANGED <<obs, net, drones>>
        /\ UNCHANGED <<threads_initialized, client_socket, cmd_receive_thread,
                       state_receiver_thread, started, owed, timed_out, dropped,
                       heard>>

\* lines 1030-1042: `if response:` holds for every text but the empty one
stream_on_return(s) ==
    LET r == sess[s]
    IN  /\ r.op = "stream_on"
        /\ r.dpc \in {"ret", "raise"}
        /\ sess' = [sess EXCEPT ![s] =
                      Finish([r EXCEPT !.STREAMING_ENABLE =
                                 IF r.dpc = "ret" /\ r.response # <<>> THEN TRUE ELSE @])]
        /\ obs' = [obs EXCEPT ![s].failed = IF r.dpc = "raise" THEN "raised" ELSE @]
        /\ UNCHANGED <<threads_initialized, client_socket, drones,
                       cmd_receive_thread, state_receiver_thread, started, net,
                       owed, timed_out, dropped, heard>>

(***************************************************************************)
(* Tello.stream_off (tello.py:1071-1086), called by the user.              *)
(***************************************************************************)
stream_off(s) ==
    LET r == sess[s]
    IN  /\ r.live
        /\ AllIdle
        /\ IF ~check_sdk_mode(r) THEN GiveUp(s, "sdk_mode")
           ELSE /\ sess' = [sess EXCEPT ![s] =
                              Enter([r EXCEPT !.op = "stream_off", !.stage = "send"],
                                    C_streamoff, TIMEOUT)]
                /\ UNCHANGED <<obs, net, drones>>
        /\ UNCHANGED <<threads_initialized, client_socket, cmd_receive_thread,
                       state_receiver_thread, started, owed, timed_out, dropped,
                       heard>>

\* lines 1079-1084: `if response:` holds for every text but the empty one
stream_off_return(s) ==
    LET r == sess[s]
    IN  /\ r.op = "stream_off"
        /\ r.dpc \in {"ret", "raise"}
        /\ sess' = [sess EXCEPT ![s] =
                      Finish([r EXCEPT !.STREAMING_ENABLE =
                                 IF r.dpc = "ret" /\ r.response # <<>> THEN FALSE ELSE @])]
        /\ obs' = [obs EXCEPT ![s].failed = IF r.dpc = "raise" THEN "raised" ELSE @]
        /\ UNCHANGED <<threads_initialized, client_socket, drones,
                       cmd_receive_thread, state_receiver_thread, started, net,
                       owed, timed_out, dropped, heard>>

(***************************************************************************)
(* One session that connects and switches the video stream on and off, on  *)
(* a device that answers or stays silent until the wait has timed out.     *)
(***************************************************************************)
NextStream ==
    \/ Tello_init("s1", "A", 1)
    \/ connect("s1")
    \/ connect_return("s1")
    \/ stream_on("s1")
    \/ stream_on_return("s1")
    \/ stream_off("s1")
    \/ stream_off_return("s1")
    \/ Dispatcher("s1")
    \/ \E m \in net : receive_response(m)
    \/ device_reply("A", S_ok)
    \/ Tick(LongTime)

SpecStream == Init /\ [][NextStream]_vars

(***************************************************************************)
(* Two sessions, each with a device of its own, that connect; one of them  *)
(* switches the video stream on.  Time passes between the calls and while  *)
(* stream_on waits, so that its wait may time out.                         *)
(***************************************************************************)
NextSessions ==
    \/ Tello_init("s1", "A", 1)
    \/ Tello_init("s2", "B", 1)
    \/ \E s \in Sessions : connect(s)
    \/ \E s \in Sessions : connect_return(s)
    \/ stream_on("s1")
    \/ stream_on_return("s1")
    \/ \E s \in Sessions : Dispatcher(s)
    \/ \E m \in net : receive_response(m)
    \/ \E body \in {S_ok, S_30} : device_reply("A", body)
    \/ device_reply("B", S_ok)
    \/ /\ sess["s1"].op \in {"none", "stream_on"}
       /\ sess["s2"].op = "none"
       /\ Tick(LongTime)

SpecSessions == Init /\ [][NextSessions]_vars

(***************************************************************************)
(* One session and its device: connect, the typed commands and             *)
(* send_command called by the user, on a device that acknowledges, refuses *)
(* or reports SDK version 30.                                              *)
(***************************************************************************)
NextCommands ==
    \/ Tello_init("s1", "A", 1)
    \/ connect("s1")
    \/ connect_return("s1")
    \/ \E distance \in Distances : move_up("s1", distance)
    \/ move_up_return("s1")
    \/ reboot("s1")
    \/ \E roll \in Sticks, pitch \in Sticks, yaw \in Sticks, throttle \in Sticks :
          joystick_control("s1", roll, pitch, yaw, throttle)
    \/ send_command("s1", C_ap, TIMEOUT)
    \/ send_command_return("s1")
    \/ Dispatcher("s1")
    \/ \E m \in net : receive_response(m)
    \/ \E body \in {S_ok, S_30, S_error} : device_reply("A", body)

SpecCommands == Init /\ [][NextCommands]_vars

(***************************************************************************)
(* Tello.get_current_state (tello.py:344-349), and one session whose       *)
(* device sends state datagrams of three fields, "bat:..;baro:..;h:..;",   *)
(* with every combination of well-formed and malformed values.             *)
(***************************************************************************)
get_current_state(s) == drones[sess[s].address].state

K_bat == <<"b", "a", "t">>
K_baro == <<"b", "a", "r", "o">>
K_h == <<"h">>

V_9 == <<"9">>
V_neg3 == <<"-", "3">>
V_1p5 == <<"1", ".", "5">>
V_x == <<"x">>
FieldValues == {V_9, V_neg3, V_1p5, V_x}

StateLine(bat, baro, h) ==
    K_bat \o <<":">> \o bat \o <<";">> \o K_baro \o <<":">> \o baro \o <<";">>
          \o K_h \o <<":">> \o h \o <<";", "CR", "LF">>

\* "ok" with nothing and with blanks around it; a datagram with a key that
\* has no converter, a segment without a colon and two empty segments
L_ok_blank == <<" ", "o", "k", " ">>
K_mpry == <<"m", "p", "r", "y">>
V_0c0 == <<"0", ",", "0">>
L_mpry ==
    K_mpry \o <<":">> \o V_0c0 \o <<";", "j", "u", "n", "k", ";", "h", ":", "2", ";", ";">>

TelemetryLines ==
    StateLines \cup {S_ok, L_ok_blank, L_mpry} \cup { StateLine(bat, baro, h) : bat \in FieldValues,
                                               baro \in FieldValues,
                                               h \in FieldValues }

NextTelemetry ==
    \/ Tello_init("s1", "A", 1)
    \/ connect("s1")
    \/ connect_return("s1")
    \/ Dispatcher("s1")
    \/ \E m \in net : receive_response(m)
    \/ device_reply("A", S_ok)
    \/ \E line \in TelemetryLines : state_thread("A", line)

SpecTelemetry == Init /\ [][NextTelemetry]_vars

(***************************************************************************)
(* Properties of send_command and __send_command_and_return.               *)
(***************************************************************************)
\* the kinds of the attempts noted so far
Kinds(h) == [k \in 1..Len(h) |-> h[k].kind]

\* C1: send_command stops at the first attempt whose response contains "ok"
\* in any mix of cases: such an attempt is the last one, no datagram is sent
\* after it and send_command returns true.  In particular, when two attempts
\* time out and the third is answered "ok", send_command returns true and
\* exactly 3 datagrams have been sent.
C1_StopsAtFirstOk ==
    \A s \in Sessions :
        LET h == obs[s].hist
            n == Len(h)
            returned == sess[s].op = "done"
        IN  /\ \A k \in 1..n : h[k].ok => k = n
            /\ (n > 0 /\ h[n].ok) =>
                  /\ obs[s].nsent = n
                  /\ sess[s].dpc \in {"ret", "idle"}
                  /\ returned => obs[s].sc_result = "true"
            /\ obs[s].sc_result = "true" => n > 0 /\ h[n].ok
            /\ (/\ returned
                /\ Kinds(h) = <<"timeout", "timeout", "response">>
                /\ h[3].ok) =>
                  obs[s].sc_result = "true" /\ obs[s].nsent = 3

\* two attempts have timed out, the third was answered "ok", and send_command
\* has returned true
C1_ThirdAttemptOk ==
    /\ sess["s1"].op = "done"
    /\ Kinds(obs["s1"].hist) = <<"timeout", "timeout", "response">>
    /\ obs["s1"].hist[3].ok
    /\ obs["s1"].sc_result = "true"
    /\ obs["s1"].nsent = 3

\* an attempt that failed: it timed out, its response did not decode, or its
\* response holds no "ok"
FailedAttempt(e) == e.kind \in {"timeout", "decode"} \/ ~e.ok

\* C2: for every command string, when every attempt of send_command has
\* failed (timed out, hit the decode error, or got a response without "ok"),
\* send_command returns false.
C2_AllFailedReturnsFalse ==
    \A s \in Sessions :
        LET h == obs[s].hist
        IN  (/\ obs[s].sc_result \in {"true", "false"}
             /\ \A k \in 1..Len(h) : FailedAttempt(h[k])) =>
               obs[s].sc_result = "false"

\* session s hands a datagram to the socket in this step
Sends(s) == sess[s].dpc = "pace" /\ sess'[s].dpc = "poll"

\* C3: a session's datagram leaves at least TIME_BTW_COMMANDS after the
\* datagram the session sent before it.
C3_Paced ==
    [][\A s \in Sessions : Sends(s) => obs[s].sinceSend >= TIME_BTW_COMMANDS]_vars

\* C4: a reply to a command whose wait has timed out is never returned as the
\* result of a later call.
C4_LateReplyDiscarded ==
    \A s \in Sessions : obs[s].lastPop # "late"

\* C5: as long as no wait on the device has timed out, the response a call
\* returns is the device's reply to the command that call sent.
C5_InOrder ==
    \A s \in Sessions :
        (sess[s].live /\ sess[s].address \notin timed_out) =>
            obs[s].lastPop \in {"none", "current"}

\* a send_command whose first attempt was refused has got the reply to its
\* second attempt, and no wait has ever timed out
C5_SecondReplyInOrder ==
    /\ timed_out = {}
    /\ Kinds(obs["s1"].hist) = <<"response", "response">>
    /\ ~obs["s1"].hist[1].ok
    /\ obs["s1"].lastPop = "current"

(***************************************************************************)
(* Properties of the listeners and of the shared socket.                   *)
(***************************************************************************)
\* C6: a datagram that reaches the command port or the state port from an
\* address without a record in `drones` changes no record (no response queue,
\* no state snapshot), and the listener that received it keeps running.
C6_UnknownSourceDropped ==
    [][\A address \in AllAddrs :
          address \notin DOMAIN drones =>
              /\ (\E body \in Replies \cup Answers : receive_stray(address, body)) =>
                    (drones' = drones /\ cmd_receive_thread' = "running")
              /\ (\E line \in StateLines : state_thread(address, line)) =>
                    (drones' = drones /\ state_receiver_thread' = "running")]_vars

\* both listeners have discarded a datagram of an unknown source and run,
\* while a registered device has a state snapshot
C6_BothPortsDropped ==
    /\ dropped = {"command", "state"}
    /\ cmd_receive_thread = "running"
    /\ state_receiver_thread = "running"
    /\ \E a \in DOMAIN drones : drones[a].state # EmptyDict

\* C7: a pass of the state listener that stores a datagram of device a leaves
\* the state snapshot and the response queue of every other registered device
\* as they were.
C7_TelemetryIsolated ==
    [][drones' # drones =>
          \A a \in DOMAIN drones, line \in StateLines :
              state_thread(a, line) =>
                  \A b \in DOMAIN drones \ {a} : drones'[b] = drones[b]]_vars

\* both devices are registered and hold the snapshots of different datagrams
C7_TwoSnapshots ==
    /\ DOMAIN drones = IPs
    /\ drones["A"].state = state_parse(L_bat)
    /\ drones["B"].state = state_parse(L_h)

\* C8: however many Tello objects are constructed one after another, the
\* command listener is started once and the command socket is created and
\* bound once, by the first construction.
C8_ListenerStartedOnce ==
    /\ started.cmd_thread <= 1
    /\ started.cmd_socket <= 1
    /\ (\E s \in Sessions : sess[s].live) =>
          (started.cmd_thread = 1 /\ started.cmd_socket = 1)

\* two Tello objects exist, the second constructed after the first
C8_TwoSessions ==
    /\ \A s \in Sessions : sess[s].live
    /\ started.cmd_thread = 1
    /\ started.cmd_socket = 1

\* C9: while a state listener runs, no step starts another state listener
\* thread or binds the state port again.
C9_NoSecondStateThread ==
    [][state_receiver_thread = "running" =>
          /\ started'.state_thread = started.state_thread
          /\ started'.state_socket = started.state_socket]_vars

\* session s is torn down in this step while another session exists
TornDownBesideAnother(s) ==
    /\ sess[s].live
    /\ ~sess'[s].live
    /\ \E s2 \in Sessions \ {s} : sess[s2].live

\* C10: tearing a session down while another session exists leaves the shared
\* command socket and the command listener as they are.
C10_SocketKeptForOthers ==
    [][\A s \in Sessions :
          TornDownBesideAnother(s) =>
              /\ client_socket' = client_socket
              /\ cmd_receive_thread' = cmd_receive_thread]_vars

(***************************************************************************)
(* Properties of the SDK-mode gate, of connect and of the typed commands.  *)
(***************************************************************************)
\* session s calls a typed command in this step
CallsTyped(s) ==
    (\E distance \in Distances : move_up(s, distance)) \/ reboot(s)

\* session s hands a datagram to the socket in this step, by the dispatcher or
\* by a typed command itself
Transmits(s) == Len(obs'[s].sent) > Len(obs[s].sent)

\* a typed command called on an unconnected session gives up before any I/O:
\* nothing is sent, nothing is taken from or added to a queue
TypedGivesUpUnconnected(s) ==
    (~sess[s].sdk_mode_enable /\ CallsTyped(s)) =>
        /\ sess'[s].op = "done"
        /\ obs'[s].failed = "sdk_mode"
        /\ obs'[s].sent = <<>>
        /\ drones' = drones
        /\ net' = net
        /\ owed' = owed

\* C11, as stated: a typed command called on an unconnected session sends
\* nothing and consumes nothing, and the only datagram an unconnected session
\* sends is the mode-entry command of connect().
C11_OnlyModeEntryUnconnected ==
    [][\A s \in Sessions :
          /\ TypedGivesUpUnconnected(s)
          /\ (~sess[s].sdk_mode_enable /\ Transmits(s)) =>
                (sess[s].op = "connect" /\ sess[s].command = C_command)]_vars

\* C11, the part that holds: a typed command called on an unconnected session
\* sends nothing and consumes nothing; what an unconnected session sends is
\* the mode-entry command of connect() or the command its caller passed to
\* send_command, which has no SDK-mode gate.
C11_UnconnectedSendsByConnectOrSendCommand ==
    [][\A s \in Sessions :
          /\ TypedGivesUpUnconnected(s)
          /\ (~sess[s].sdk_mode_enable /\ Transmits(s)) =>
                \/ sess[s].op = "connect" /\ sess[s].command = C_command
                \/ sess[s].op = "send_command"]_vars

\* a typed command has given up on an unconnected session that had sent a
\* datagram before
C11_GaveUpUnconnected ==
    /\ sess["s1"].live
    /\ ~sess["s1"].sdk_mode_enable
    /\ sess["s1"].op = "done"
    /\ obs["s1"].failed = "sdk_mode"
    /\ obs["s1"].sent = <<>>
    /\ obs["s1"].sinceSend = 0

\* the latest attempt of the send_command that s is in was answered with "ok"
Acked(s) == obs[s].hist # <<>> /\ obs[s].hist[Len(obs[s].hist)].ok

\* connect takes up the result of an attempt of its send_command("command")
ConnectDecides(s) ==
    /\ sess[s].op = "connect"
    /\ sess[s].stage = "command"
    /\ sess[s].dpc = "ret"
    /\ sess'[s].dpc # "ret"

\* C12: a session becomes SdkActive if and only if its connect() had the
\* mode-entry command acknowledged; a connect() that gives up leaves
\* sdk_mode_enable as it was, has sent nothing but the mode-entry command
\* (no version, hardware or battery query) and starts no state listener.
C12_ActiveIffAcknowledged ==
    [][/\ \A s \in Sessions :
            /\ (sess'[s].sdk_mode_enable /\ ~sess[s].sdk_mode_enable) =>
                  (ConnectDecides(s) /\ Acked(s))
            /\ (ConnectDecides(s) /\ Acked(s)) =>
                  (sess'[s].sdk_mode_enable /\ obs'[s].sc_result = "true")
            /\ (ConnectDecides(s) /\ ~Acked(s) /\ sess'[s].op = "done") =>
                  /\ obs'[s].sc_result = "false"
                  /\ sess'[s].sdk_mode_enable = sess[s].sdk_mode_enable
                  /\ \A k \in 1..Len(obs'[s].sent) : obs'[s].sent[k] = C_command
                  /\ UNCHANGED <<started, state_receiver_thread>>
       /\ started'.state_thread # started.state_thread =>
            \E s \in Sessions :
                sess[s].op = "connect" /\ sess[s].sdk_mode_enable /\ Acked(s)]_vars

\* a connect() whose mode-entry command was refused has returned: the session
\* is unconnected and no state listener was ever started
C12_ConnectRefused ==
    /\ sess["s1"].op = "done"
    /\ obs["s1"].sc_result = "false"
    /\ obs["s1"].sent = <<C_command>>
    /\ ~sess["s1"].sdk_mode_enable
    /\ started.state_thread = 0
    /\ state_receiver_thread = "none"

(***************************************************************************)
(* Properties of the listeners' failures and of teardown.                  *)
(***************************************************************************)
\* C13: once the command listener has ended on a receive error it is never
\* started again, and a call whose datagram is sent after that returns no
\* response and does not raise: it ends with the timeout result, and
\* send_command returns false.
C13_PermanentTimeouts ==
    [][/\ cmd_receive_thread = "dead" =>
            (cmd_receive_thread' = "dead" /\ started'.cmd_thread = started.cmd_thread)
       /\ \A s \in Sessions :
            obs[s].deaf =>
                /\ sess'[s].dpc \notin {"pop", "raise"}
                /\ obs'[s].sc_result \in {"none", "false"}
                /\ (sess[s].dpc = "poll" /\ sess'[s].dpc = "ret") =>
                      sess'[s].response = AbortMessage(sess[s].command, sess[s].timeout)]_vars

TornDown(s) == sess[s].live /\ ~sess'[s].live

\* __del__ takes up the outcome of land in this step
AfterLand(s) ==
    /\ sess[s].op = "del"
    /\ sess[s].stage = "land"
    /\ sess[s].dpc \in {"ret", "raise"}
    /\ sess'[s].dpc # sess[s].dpc

\* C15: teardown raises nothing and ends with the socket closed; on an
\* SdkActive session it attempts land and then stream-off first, whatever
\* became of land (a response, a timeout, or an exception of the closed
\* socket); on an unconnected session it sends nothing.
C15_TeardownNeverRaises ==
    [][\A s \in Sessions :
          /\ TornDown(s) =>
                /\ obs'[s].failed = "torn_down"
                /\ client_socket' = "closed"
                /\ IF sess[s].sdk_mode_enable
                   THEN sess[s].op = "del" /\ sess[s].stage = "streamoff"
                   ELSE sess[s].op = "none"
          /\ (sess[s].op = "none" /\ sess'[s].op = "del") =>
                (sess'[s].stage = "land" /\ sess'[s].command = C_land)
          /\ AfterLand(s) =>
                /\ sess'[s].op = "del"
                /\ sess'[s].stage = "streamoff"
                /\ sess'[s].command = C_streamoff]_vars

\* both sessions have been torn down, one of them after it had connected;
\* a wait had timed out on its device
C15_BothTornDown ==
    /\ \A s \in Sessions : ~sess[s].live /\ obs[s].failed = "torn_down"
    /\ started.state_thread >= 1
    /\ "A" \in timed_out
    /\ client_socket = "closed"

C_up_100 == <<"u", "p", " ", "1", "0", "0">>

\* C16: on a connected session, move_up with a distance below 20 or above 500
\* gives up before any I/O (nothing sent, no queue touched), and move_up with
\* a distance from 20 to 500 sends exactly one datagram.
C16_RangeCheckedBeforeIO ==
    [][\A s \in Sessions :
          /\ \A distance \in Distances :
                (sess[s].sdk_mode_enable /\ move_up(s, distance)) =>
                    IF distance < 20 \/ distance > 500
                    THEN /\ sess'[s].op = "done"
                         /\ obs'[s].failed = "range"
                         /\ obs'[s].sent = <<>>
                         /\ UNCHANGED <<drones, net, owed>>
                    ELSE /\ sess'[s].op = "move_up"
                         /\ distance = 100 => sess'[s].command = C_up_100
          /\ sess[s].op = "move_up" => Len(obs'[s].sent) <= 1
          /\ (sess[s].op = "move_up" /\ sess'[s].op = "done") =>
                obs'[s].sent = <<sess[s].command>>]_vars

\* move_up(100) has returned with the device's response after one datagram
C16_MovedUp100 ==
    /\ sess["s1"].op = "done"
    /\ obs["s1"].sent = <<C_up_100>>
    /\ obs["s1"].lastPop = "current"
    /\ obs["s1"].failed = "none"

(***************************************************************************)
(* Properties of the registry and of the state snapshots.                  *)
(***************************************************************************)
\* C17: no step removes an address from the registry: every address with a
\* record keeps one.
C17_NeverRemoved ==
    [][DOMAIN drones \subseteq DOMAIN drones']_vars

\* both devices are registered although every session has been torn down and
\* the command listener has ended
C17_RegisteredAfterTeardown ==
    /\ DOMAIN drones = IPs
    /\ \A s \in Sessions : ~sess[s].live /\ obs[s].failed = "torn_down"
    /\ cmd_receive_thread = "dead"

\* C18: constructing a session for an address that has a record already
\* leaves that record, its queued responses and its state snapshot, as it is.
C18_SecondSessionKeepsRecord ==
    [][\A s \in Sessions, ip \in IPs :
          (ip \in DOMAIN drones /\ Tello_init(s, ip, 1)) =>
              drones'[ip] = drones[ip]]_vars

\* the snapshots the three short state datagrams decode to
Snap_bat == (K_bat :> <<"int", 9>>) @@ (K_h :> <<"int", 1>>)
Snap_h == (K_h :> <<"int", 2>>)
SnapshotOf(line) ==
    IF line = L_bat THEN Snap_bat ELSE IF line = L_h THEN Snap_h ELSE EmptyDict

\* C19: when a state datagram of a registered device has been processed, the
\* snapshot of that device is the decoding of the datagram and nothing else:
\* a key of the previous snapshot that the datagram does not carry is gone
\* (after a bare "ok" every key is), and get_current_state returns that
\* snapshot.
C19_SnapshotReplaced ==
    [][\A line \in {L_ok, L_bat, L_h} :
          ("A" \in DOMAIN drones /\ heard'["A"] = line /\ state_thread("A", line)) =>
              /\ drones'["A"].state = SnapshotOf(line)
              /\ \A key \in DOMAIN drones["A"].state :
                    key \notin DOMAIN SnapshotOf(line) =>
                        key \notin DOMAIN drones'["A"].state
              /\ \A s \in Sessions :
                    sess[s].live => get_current_state(s)' = SnapshotOf(line)]_vars

\* the snapshot holds the height only, from the last datagram, and the session
\* reads it
C19_HeightOnly ==
    /\ heard["A"] = L_h
    /\ sess["s1"].live
    /\ get_current_state("s1") = Snap_h
    /\ K_bat \notin DOMAIN get_current_state("s1")

IntValues == {V_9, V_neg3}
FloatValues == {V_9, V_neg3, V_1p5}
IntOf(value) == IF value = V_9 THEN <<"int", 9>> ELSE <<"int", -3>>
FloatOf(value) ==
    IF value = V_9 THEN <<"float", 9, 1>>
    ELSE IF value = V_neg3 THEN <<"float", -3, 1>> ELSE <<"float", 15, 10>>

\* the number of malformed values among the three fields of a datagram
Malformed(bat, baro, h) ==
    (IF bat \in IntValues THEN 0 ELSE 1) + (IF baro \in FloatValues THEN 0 ELSE 1)
        + (IF h \in IntValues THEN 0 ELSE 1)

\* C20: a state datagram with one malformed int or float value decodes to a
\* mapping without that field and with the two other fields and their
\* values, whether the malformed field is the first, the middle or the last.
C20_OnlyMalformedFieldOmitted ==
    \A bat \in FieldValues, baro \in FieldValues, h \in FieldValues :
        (heard["A"] = StateLine(bat, baro, h) /\ Malformed(bat, baro, h) = 1) =>
            LET state == drones["A"].state
            IN  /\ DOMAIN state = {K_bat : x \in {bat} \cap IntValues}
                                    \cup {K_baro : x \in {baro} \cap FloatValues}
                                    \cup {K_h : x \in {h} \cap IntValues}
                /\ K_bat \in DOMAIN state => state[K_bat] = IntOf(bat)
                /\ K_baro \in DOMAIN state => state[K_baro] = FloatOf(baro)
                /\ K_h \in DOMAIN state => state[K_h] = IntOf(h)

\* the pressure of the last datagram was malformed: the snapshot holds the
\* battery level before it and the height after it
C20_MiddleFieldOmitted ==
    /\ heard["A"] = StateLine(V_9, V_x, V_neg3)
    /\ drones["A"].state = (K_bat :> <<"int", 9>>) @@ (K_h :> <<"int", -3>>)

\* C21: a state datagram that is "ok", bare or with white space or a line end
\* around it, decodes to the empty mapping and the state listener goes on;
\* in any other datagram a segment without ':' (the empty segment after the
\* last ';' too) gives no key, and a key that is neither an int nor a float
\* field is stored with its text.
C21_OkAndUnknownKeys ==
    /\ [](LET state == drones["A"].state
          IN  /\ heard["A"] \in {S_ok, L_ok, L_ok_blank} => state = EmptyDict
              /\ heard["A"] = L_mpry =>
                    state = (K_mpry :> <<"str", V_0c0>>) @@ (K_h :> <<"int", 2>>)
              /\ \A bat \in IntValues, baro \in FloatValues, h \in IntValues :
                    heard["A"] = StateLine(bat, baro, h) =>
                        DOMAIN state = {K_bat, K_baro, K_h})
    /\ [][\A line \in {S_ok, L_ok, L_ok_blank} :
            ("A" \in DOMAIN drones /\ heard'["A"] = line /\ state_thread("A", line)) =>
                /\ drones'["A"].state = EmptyDict
                /\ state_receiver_thread' = "running"]_vars

\* the datagram "mpry:0,0;junk;h:2;;" was decoded
C21_RawStringStored ==
    /\ heard["A"] = L_mpry
    /\ DOMAIN drones["A"].state = {K_mpry, K_h}
    /\ drones["A"].state[K_mpry] = <<"str", V_0c0>>

\* the wait of session s ends with the timeout result in this step
TimesOut(s) == sess[s].dpc = "poll" /\ sess'[s].dpc = "ret"

Pops(s) == sess[s].dpc = "pop" /\ sess'[s].dpc = "ret"

\* C23: the time that the pacing of a session is measured from is the moment
\* its latest datagram was sent: it is set by every send, of a call that times
\* out too, and the arrival of the response leaves it as it is.
C23_StampedAtSend ==
    [][\A s \in Sessions :
          /\ Sends(s) => sess'[s].since_last_received = 0
          /\ Pops(s) => sess'[s].since_last_received = sess[s].since_last_received]_vars

\* C24: every attempt of send_command hands exactly one datagram to the
\* socket, addressed to the session's own device: the datagrams sent by a
\* call are as many as its attempts, at most retry_count, and exactly
\* retry_count when the call returns false.
C24_OneDatagramPerAttempt ==
    /\ [](\A s \in Sessions :
            LET r == sess[s]
                attempts == Len(obs[s].hist) + (IF r.dpc \in {"poll", "pop"} THEN 1 ELSE 0)
            IN  r.live =>
                  /\ obs[s].nsent = attempts
                  /\ obs[s].nsent <= r.retry_count
                  /\ (r.op = "send_command" /\ r.dpc = "pace") => obs[s].nsent = r.i
                  /\ obs[s].sc_result = "false" => obs[s].nsent = r.retry_count)
    /\ [][\A s \in Sessions :
            Sends(s) => /\ owed'[sess[s].address]
                        /\ \A ip \in IPs \ {sess[s].address} : owed'[ip] = owed[ip]
                        /\ obs'[s].nsent = obs[s].nsent + 1
                        /\ obs'[s].sent = Append(obs[s].sent, sess[s].command)]_vars

\* send_command has returned false after three attempts and three datagrams
C24_ThreeDatagramsFalse ==
    /\ sess["s1"].op = "done"
    /\ sess["s1"].retry_count = 3
    /\ obs["s1"].sc_result = "false"
    /\ Len(obs["s1"].hist) = 3
    /\ Len(obs["s1"].sent) = 3

\* the payloads of a response queue, oldest first
Bodies(responses) == [k \in 1..Len(responses) |-> responses[k].body]

\* C25: whatever the order of the steps of the command listener and of the
\* dispatcher of a record, no response is lost and none is handed out twice:
\* a step leaves the queue as it is, or the listener puts the arrived response
\* behind the others, or the dispatcher takes the oldest one off and returns
\* it; an arrived response is always appended, a pop always removes.
C25_NeitherLostNorDuplicated ==
    [][\A a \in DOMAIN drones \cap DOMAIN drones' :
          LET q == Bodies(drones[a].responses)
              after == Bodies(drones'[a].responses)
          IN  /\ \/ after = q
                 \/ \E m \in net : /\ m.src = a
                                   /\ receive_response(m)
                                   /\ after = Append(q, m.body)
                 \/ \E s \in Sessions : /\ sess[s].address = a
                                        /\ Pops(s)
                                        /\ q # <<>>
                                        /\ after = Tail(q)
                                        /\ sess'[s].response \in
                                             {RStripCRLF(Head(q)), S_decode_error}
              /\ \A m \in net : (m.src = a /\ receive_response(m)) => after = Append(q, m.body)
              /\ \A s \in Sessions : (sess[s].address = a /\ Pops(s)) => after = Tail(q)]_vars

\* a call has returned the older of two queued responses, the younger one is
\* still queued
C25_OneOfTwoPopped ==
    /\ sess["s1"].dpc = "ret"
    /\ obs["s1"].lastPop = "late"
    /\ Len(drones["A"].responses) = 1
    /\ drones["A"].responses[1].re = "current"

\* session s executes responses.pop(0) in this step
TriesToPop(s) == sess[s].dpc = "pop" /\ sess'[s].dpc # "pop"

\* C26: when two threads are inside __send_command_and_return for one device
\* at a time, a queued response is returned to one call at most and no call
\* pops from the empty queue: the pop finds a response, removes it and the
\* call returns it or the decode-error result.
C26_NoPopFromEmptyQueue ==
    [][\A s \in Sessions :
          TriesToPop(s) =>
              LET a == sess[s].address
              IN  /\ drones[a].responses # <<>>
                  /\ drones'[a].responses = Tail(drones[a].responses)
                  /\ sess'[s].dpc = "ret"]_vars

\* "rc -100 100 100 -100": roll -100, pitch 100, throttle 100, yaw -100
C_rc_sample ==
    <<"r", "c", " ", "-", "1", "0", "0", " ", "1", "0", "0", " ", "1", "0", "0",
      " ", "-", "1", "0", "0">>

\* session s has handed `command` to the socket and returned in this step: it
\* waits for nothing, takes nothing off a queue, makes no attempt of
\* send_command and leaves the time its pacing is measured from
Fired(s, command) ==
    /\ sess'[s].op = "done"
    /\ sess'[s].dpc = "idle"
    /\ obs'[s].sent = <<command>>
    /\ \A a \in DOMAIN drones :
          Bodies(drones'[a].responses) = Bodies(drones[a].responses)
    /\ obs'[s].hist = obs[s].hist
    /\ obs'[s].nsent = obs[s].nsent
    /\ obs'[s].lastPop = "none"
    /\ sess'[s].since_last_received = sess[s].since_last_received

S_OK == <<"O", "K">>
\* what a call returns for each of the payloads a device sends
Returned(body) ==
    IF body = S_OK_crlf THEN S_OK
    ELSE IF body = S_bad THEN S_decode_error
    ELSE body

\* C28: a call that finds its queue non-empty takes exactly the oldest entry
\* off and returns it, decoded and without the CR/LF at its end; the other
\* entries stay, in their order.  A call that times out leaves the queue as it
\* is.  An entry that is not valid UTF-8 is removed all the same and the call
\* returns the decode-error result.
C28_PopsOldest ==
    [][\A s \in Sessions :
          LET a == sess[s].address
              q == drones[a].responses
          IN  /\ Pops(s) =>
                    /\ q # <<>>
                    /\ drones'[a].responses = Tail(q)
                    /\ \A k \in 1..(Len(q) - 1) : drones'[a].responses[k] = q[k + 1]
                    /\ Head(q).body \in Replies
                    /\ sess'[s].response = Returned(Head(q).body)
              /\ TimesOut(s) => drones' = drones]_vars

\* a call has popped an entry that does not decode and returns the
\* decode-error result; the entry behind it is still queued
C28_UndecodablePopped ==
    /\ sess["s1"].dpc = "ret"
    /\ sess["s1"].response = S_decode_error
    /\ Len(drones["A"].responses) = 1
    /\ Len(obs["s1"].hist) > 0
    /\ obs["s1"].hist[Len(obs["s1"].hist)].kind = "decode"

\* C29: the deadline of a wait is counted from the moment the datagram was
\* sent, the pacing sleep before the send is not part of it: a pass of the
\* polling loop that finds no response returns the timeout result exactly
\* when more than `timeout` has passed since the send, never earlier.
C29_DeadlineFromSend ==
    [][\A s \in Sessions :
          /\ TimesOut(s) => obs[s].sinceSend > sess[s].timeout
          /\ (scr_poll(s) /\ drones[sess[s].address].responses = <<>>) =>
                (TimesOut(s) <=> obs[s].sinceSend > sess[s].timeout)]_vars

\* a wait with the largest timeout has ended with the timeout result, one
\* tick after its deadline
C29_TimedOutAfterDeadline ==
    /\ sess["s1"].dpc = "ret"
    /\ sess["s1"].timeout = MaxTimeout
    /\ Len(obs["s1"].hist) > 0
    /\ obs["s1"].hist[Len(obs["s1"].hist)].kind = "timeout"
    /\ obs["s1"].sinceSend = MaxTimeout + 1

\* the state of a session that belongs to it alone; the pacing timestamp is
\* held as the time since it
SessionState(r) ==
    <<r.sdk_mode_enable, r.sdk_version, r.hardware, r.STREAMING_ENABLE,
      r.since_last_received>>

\* C30: the SDK-mode flag, the SDK version, the hardware, the streaming flag
\* and the pacing timestamp of a session are changed by its own calls only:
\* a step of a call on one session (connect, a command, stream_on, a timeout)
\* leaves those of every other session as they are, and the passing of time
\* changes nothing but the time since each session's own timestamp.
C30_SessionStatePrivate ==
    [][\A s \in Sessions : \A t \in Sessions \ {s} :
          /\ (sess'[s] # sess[s] /\ ~Tick(LongTime)) =>
                SessionState(sess'[t]) = SessionState(sess[t])
          /\ (sess[t].live /\ Tick(LongTime)) =>
                /\ SessionState(sess'[t])[5] =
                      Min(TIME_BTW_COMMANDS, sess[t].since_last_received + LongTime)
                /\ SubSeq(SessionState(sess'[t]), 1, 4) = SubSeq(SessionState(sess[t]), 1, 4)]_vars

\* one session is connected, knows its device and streams, and has just
\* received a response; the other one has none of that
C30_OneConnectedOneNot ==
    /\ sess["s1"].sdk_mode_enable /\ sess["s1"].STREAMING_ENABLE
    /\ sess["s1"].sdk_version = <<"int", 30>>
    /\ sess["s1"].hardware # None
    /\ sess["s1"].since_last_received = 0
    /\ sess["s2"].live
    /\ ~sess["s2"].sdk_mode_enable /\ ~sess["s2"].STREAMING_ENABLE
    /\ sess["s2"].sdk_version = None
    /\ sess["s2"].since_last_received = TIME_BTW_COMMANDS

(***************************************************************************)
(* Properties of the session state.                                        *)
(***************************************************************************)
\* C31: a session whose streaming flag is set has its SDK-mode flag set:
\* streaming is entered from SDK mode only, never by a session that has not
\* connected.
C31_StreamingImpliesSdkMode ==
    \A s \in Sessions : sess[s].STREAMING_ENABLE => sess[s].sdk_mode_enable

\* stream_on of a session that has not connected has given up: nothing was
\* sent and the streaming flag is not set
C31_StreamOnRefused ==
    /\ sess["s1"].op = "done"
    /\ obs["s1"].failed = "sdk_mode"
    /\ obs["s1"].sent = <<>>
    /\ ~sess["s1"].sdk_mode_enable
    /\ ~sess["s1"].STREAMING_ENABLE

\* a connected session streams
C31_Streaming ==
    sess["s1"].sdk_mode_enable /\ sess["s1"].STREAMING_ENABLE /\ sess["s1"].op = "none"

\* connect returns in this step, after the mode-entry command was acknowledged
ConnectedReturns(s) ==
    /\ sess[s].op = "connect"
    /\ sess[s].stage = "battery"
    /\ sess'[s].op = "done"

\* C32: when connect() returns after the mode-entry command was acknowledged,
\* the session has sent one query for the protocol version and one for the
\* hardware, in that order after the mode-entry command, and holds both
\* answers, whatever version the device has reported.
C32_VersionAndHardwareQueried ==
    [][\A s \in Sessions :
          ConnectedReturns(s) =>
              /\ Len(obs[s].sent) >= 3
              /\ obs[s].sent[1] = C_command
              /\ obs[s].sent[2] = C_sdk
              /\ obs[s].sent[3] = C_hardware
              /\ sess'[s].sdk_version # None
              /\ sess'[s].hardware # None]_vars

\* stream_on, stream_off return in this step
StreamOnReturns(s) == sess[s].op = "stream_on" /\ sess'[s].op = "done"
StreamOffReturns(s) == sess[s].op = "stream_off" /\ sess'[s].op = "done"

\* C33: stream_on sets the streaming flag only when the device has answered
\* "streamon": when the wait has timed out the flag stays as it was.  In the
\* same way stream_off clears the flag only when the device has answered.
C33_FlagFollowsAnswer ==
    [][\A s \in Sessions :
          /\ (/\ StreamOnReturns(s)
              /\ sess[s].response = AbortMessage(C_streamon, TIMEOUT)) =>
                 sess'[s].STREAMING_ENABLE = sess[s].STREAMING_ENABLE
          /\ (/\ StreamOffReturns(s)
              /\ sess[s].response = AbortMessage(C_streamoff, TIMEOUT)) =>
                 sess'[s].STREAMING_ENABLE = sess[s].STREAMING_ENABLE]_vars

\* C34: a state datagram of a registered device that does not decode (bytes
\* that are not ASCII) leaves the snapshot of the device as it is and the
\* state listener running, so that later datagrams are still stored.
C34_UndecodableStateSkipped ==
    [][("A" \in DOMAIN drones /\ state_thread("A", S_bad)) =>
          /\ drones' = drones
          /\ state_receiver_thread' = "running"]_vars

\* C35: when two Tello objects are constructed by two threads at a time
\* before a listener exists, the test and the assignment of
\* threads_initialized still give one bound command socket and one command
\* listener, and each constructor ends with its address registered.
C35_BothConstructed ==
    /\ started.cmd_socket <= 1
    /\ started.cmd_thread <= 1
    /\ \A s \in Sessions : obs[s].failed # "raised"
    /\ \A s \in Sessions : sess[s].live => sess[s].address \in DOMAIN drones

====
